---- MODULE Spec2Model ----
(***************************************************************************)
(* Model of process_orders.py: the ingestion loop of main() (column        *)
(* dispatch, client-name deduplication, product-header parsing, quantity   *)
(* normalisation, per-day aggregation) and the report phase that reads the *)
(* aggregated orders and catalog.                                          *)
(*                                                                         *)
(* Python strings are sequences of one-character strings, so that the      *)
(* regular expression, capitalize() and float() are computed character by  *)
(* character.  Python floats are represented by exact decimals             *)
(* [m |-> mantissa, e |-> number of decimals]: binary rounding is not      *)
(* modelled.                                                               *)
(***************************************************************************)
EXTENDS Integers, Sequences, FiniteSets, TLC

VARIABLES
    header,            \* rows.fieldnames: the header cells of the CSV file
    options,           \* the command line: pdf_output, clients, harvest
    delivery_day,      \* GlobalParams().delivery_day
    pc,                \* position in main()
    rows_read,         \* number of data rows the DictReader has yielded
    row,               \* the row being processed: one cell per header cell
    col,               \* index of the (k, v) item the inner loop is at
    name,              \* local variable name
    client,            \* local variable client
    day_key,           \* local variable day_key (survives from row to row)
    client_list,       \* set of client names already used
    orders,            \* dict day -> dict client name -> Client
    harvest_products,  \* dict day -> dict product name -> Product
    err,               \* the exception that ended the run, if any
    out                \* reports rendered so far, in order

vars == <<header, options, delivery_day, pc, rows_read, row, col, name, client,
          day_key, client_list, orders, harvest_products, err, out>>

---------------------------------------------------------------------------
(* Bounds *)

\* Largest number of data cells (rows x columns) of an input file.
MaxCells == 7

---------------------------------------------------------------------------
(* Strings *)

Range(s) == {s[i] : i \in 1..Len(s)}

Lower == <<"a","b","c","d","e","f","g","h","i","j","k","l","m",
           "n","o","p","q","r","s","t","u","v","w","x","y","z","é","è">>
Upper == <<"A","B","C","D","E","F","G","H","I","J","K","L","M",
           "N","O","P","Q","R","S","T","U","V","W","X","Y","Z","É","È">>
DigitChars == <<"0","1","2","3","4","5","6","7","8","9">>

\* \s, [0-9,] and \w of the re module
SpaceChars == {" ", "\t"}
PriceChars == Range(DigitChars) \cup {","}
WordChars  == Range(Lower) \cup Range(Upper) \cup Range(DigitChars) \cup {"_"}

NAME_FIELD         == <<"N","O","M"," ","-"," ","P","R","E","N","O","M">>
EMAIL_FIELD        == <<"E","-","m","a","i","l">>
COMMENT_FIELD      == <<"C","o","m","m","e","n","t","a","i","r","e">>
DELIVERY_DAY_FIELD == <<"L","i","v","r","a","i","s","o","n">>

DELIVERY_DAY_NO_PREFERENCE_VAL == <<"P","e","u"," ","i","m","p","o","r","t","e">>
DELIVERY_DAY_NO_PREFERENCE_STR == <<"I","n","d","i","f","f","é","r","e","n","t">>

\* Python's None where a string is expected, and a local variable that has
\* not been assigned yet.
None    == <<"None">>
Unbound == <<"Unbound">>

UpperOf(c) == IF c \in Range(Lower)
              THEN Upper[CHOOSE i \in 1..Len(Lower) : Lower[i] = c] ELSE c
LowerOf(c) == IF c \in Range(Upper)
              THEN Lower[CHOOSE i \in 1..Len(Upper) : Upper[i] = c] ELSE c

\* str.capitalize(): first character upper case, the others lower case
Capitalize(s) == [i \in 1..Len(s) |-> IF i = 1 THEN UpperOf(s[i]) ELSE LowerOf(s[i])]

RECURSIVE IntToStr(_)
\* f'{i}' for i >= 0
IntToStr(n) == IF n < 10 THEN <<DigitChars[n + 1]>>
               ELSE IntToStr(n \div 10) \o <<DigitChars[(n % 10) + 1]>>

\* re.sub(',', '.', s)
SubComma(s) == [i \in 1..Len(s) |-> IF s[i] = "," THEN "." ELSE s[i]]

RECURSIVE RunEnd(_, _, _)
\* End (exclusive) of the longest run of characters of class C starting at i.
RunEnd(s, i, C) ==
    IF i > Len(s) \/ s[i] \notin C THEN i ELSE RunEnd(s, i + 1, C)

---------------------------------------------------------------------------
(* Decimals *)

None_num == [m |-> 0, e |-> 0 - 1]      \* None where a number is expected
Zero     == [m |-> 0, e |-> 0]

RECURSIVE Pow10(_)
Pow10(n) == IF n = 0 THEN 1 ELSE 10 * Pow10(n - 1)

RECURSIVE DecNorm(_)
\* canonical form: no trailing zero decimal
DecNorm(d) == IF d.e > 0 /\ d.m % 10 = 0
              THEN DecNorm([m |-> d.m \div 10, e |-> d.e - 1]) ELSE d

DecAdd(a, b) ==
    LET e == IF a.e > b.e THEN a.e ELSE b.e
    IN  DecNorm([m |-> a.m * Pow10(e - a.e) + b.m * Pow10(e - b.e), e |-> e])

DecMul(a, b) == DecNorm([m |-> a.m * b.m, e |-> a.e + b.e])

DecDivPow10(a, k) == DecNorm([m |-> a.m, e |-> a.e + k])

\* a >= n and a > n for an integer n
DecGE(a, n) == a.m >= n * Pow10(a.e)
DecGT(a, n) == a.m > n * Pow10(a.e)

RECURSIVE DigitsToInt(_)
DigitsToInt(ds) ==
    IF ds = <<>> THEN 0
    ELSE 10 * DigitsToInt(SubSeq(ds, 1, Len(ds) - 1))
         + ((CHOOSE i \in 1..10 : DigitChars[i] = ds[Len(ds)]) - 1)

\* float(s) for the decimal notations: optional surrounding white space, an
\* optional sign, digits with at most one '.', at least one digit.  Anything
\* else raises ValueError (ok = FALSE).  Exponents, "inf", "nan" and digit
\* group separators are outside the inputs of this model.
Float(s) ==
    LET a    == RunEnd(s, 1, SpaceChars)
        z    == CHOOSE j \in (a - 1)..Len(s) :
                    /\ \A k \in (j + 1)..Len(s) : s[k] \in SpaceChars
                    /\ (j < a \/ s[j] \notin SpaceChars)
        t    == SubSeq(s, a, z)
        sgn  == IF t # <<>> /\ t[1] = "-" THEN 0 - 1 ELSE 1
        u    == IF t # <<>> /\ t[1] \in {"-", "+"} THEN Tail(t) ELSE t
        dots == {i \in 1..Len(u) : u[i] = "."}
        ds   == SelectSeq(u, LAMBDA c : c # ".")
        good == /\ ds # <<>>
                /\ Range(ds) \subseteq Range(DigitChars)
                /\ Cardinality(dots) <= 1
        frac == IF dots = {} THEN 0 ELSE Len(u) - (CHOOSE i \in dots : TRUE)
    IN  IF good
        THEN [ok |-> TRUE,  val |-> DecNorm([m |-> sgn * DigitsToInt(ds), e |-> frac])]
        ELSE [ok |-> FALSE, val |-> None_num]

---------------------------------------------------------------------------
(* PRODUCT_PRICE_PATTERN *)

\* The part of the pattern after the product group, matched from position i:
\*   \s*-\s*(?P<price>[0-9,]+)€\s*/\s*(?P<unit>\w+)\s*
\* Each class is disjoint from what follows it, so greedy matching decides
\* every boundary.
MatchTail(s, i) ==
    LET a == RunEnd(s, i, SpaceChars)        \* s[a] must be '-'
        b == RunEnd(s, a + 1, SpaceChars)    \* the price starts at b
        c == RunEnd(s, b, PriceChars)        \* s[c] must be '€'
        d == RunEnd(s, c + 1, SpaceChars)    \* s[d] must be '/'
        f == RunEnd(s, d + 1, SpaceChars)    \* the unit starts at f
        g == RunEnd(s, f, WordChars)
    IN  IF /\ a <= Len(s) /\ s[a] = "-"
           /\ c > b /\ c <= Len(s) /\ s[c] = "€"
           /\ d <= Len(s) /\ s[d] = "/"
           /\ g > f
        THEN [ok |-> TRUE, price |-> SubSeq(s, b, c - 1), unit |-> SubSeq(s, f, g - 1)]
        ELSE [ok |-> FALSE, price |-> <<>>, unit |-> <<>>]

\* The product group (?P<product>.+) of a match that consumed `lead` leading
\* white-space characters and whose product group ends at `last`.
ProductGroup(s, lead, last) == SubSeq(s, lead + 1, last)

NoMatch == [ok |-> FALSE, product |-> <<>>, price |-> <<>>, unit |-> <<>>]

RECURSIVE MatchProduct(_, _, _)
\* The group .+ is greedy: with `lead` leading characters consumed by \s*, the
\* engine tries the product group ending at `last`, then backtracks to shorter
\* groups ('.' is any character: the cells hold no newline).
MatchProduct(s, lead, last) ==
    IF last <= lead THEN NoMatch
    ELSE LET t == MatchTail(s, last + 1)
         IN  IF t.ok
             THEN [ok |-> TRUE, product |-> ProductGroup(s, lead, last),
                   price |-> t.price, unit |-> t.unit]
             ELSE MatchProduct(s, lead, last - 1)

RECURSIVE MatchFrom(_, _)
\* The leading \s* is greedy too: the longest leading white space is tried
\* first, then shorter ones.
MatchFrom(s, lead) ==
    IF lead < 0 THEN NoMatch
    ELSE LET m == MatchProduct(s, lead, Len(s))
         IN  IF m.ok THEN m ELSE MatchFrom(s, lead - 1)

\* PRODUCT_PRICE_PATTERN.match(s)
PatternMatch(s) == MatchFrom(s, RunEnd(s, 1, SpaceChars) - 1)

---------------------------------------------------------------------------
(* Python dict: the (key, value) pairs in insertion order *)

EmptyDict == <<>>

Keys(d) == {d[i].k : i \in 1..Len(d)}

Has(d, key) == key \in Keys(d)

Get(d, key) == d[CHOOSE i \in 1..Len(d) : d[i].k = key].v

\* d[key] = value
Put(d, key, value) ==
    IF Has(d, key)
    THEN [i \in 1..Len(d) |-> IF d[i].k = key THEN [k |-> key, v |-> value] ELSE d[i]]
    ELSE Append(d, [k |-> key, v |-> value])

---------------------------------------------------------------------------
(* class Product *)

\* Product.__init__: float() of the price may raise ValueError (ok = FALSE)
NewProduct(price, unit) ==
    LET f == Float(SubComma(price))
    IN  [ok |-> f.ok,
         obj |-> [price |-> f.val, price_unit |-> unit, ordered_quantity |-> Zero]]

\* Product.increase_quantity
IncreaseQuantity(product, quantity) ==
    [product EXCEPT !.ordered_quantity = DecAdd(@, quantity)]

---------------------------------------------------------------------------
(* class ProductOrder *)

\* ProductOrder.__init__
NewProductOrder(product_name) ==
    [name |-> product_name, erroneous_quantity |-> None_num, quantity |-> Zero,
     quantity_unit |-> None, price |-> Zero]

KG == <<"k","g">>
GRAMS_THRESHOLD == 100

\* IsGramsForKilos with > for >=
IsGramsForKilosAbove(unit, quantity) == unit = KG /\ DecGT(quantity, GRAMS_THRESHOLD)

\* the test of set_quantity that decides the correction
IsGramsForKilos(unit, quantity) == unit = KG /\ DecGE(quantity, GRAMS_THRESHOLD)

\* the price of an order line
LinePrice(unit_price, quantity) == DecMul(unit_price, quantity)

\* ProductOrder.set_quantity: float() of the cell may raise ValueError
SetQuantity(order, quantity, product_params) ==
    LET f    == Float(SubComma(quantity))
        unit == product_params.price_unit
        fix  == IsGramsForKilos(unit, f.val)
        q    == IF fix THEN DecDivPow10(f.val, 3) ELSE f.val   \* / 1000.
    IN  IF ~f.ok
        THEN [ok |-> FALSE, obj |-> [order EXCEPT !.quantity_unit = unit]]
        ELSE [ok |-> TRUE,
              obj |-> [order EXCEPT !.quantity_unit = unit,
                                    !.erroneous_quantity = IF fix THEN f.val ELSE @,
                                    !.quantity = q,
                                    !.price = LinePrice(product_params.price, q)]]

---------------------------------------------------------------------------
(* class Client *)

\* Client.__init__
NewClient ==
    [comment |-> None, day |-> None, email |-> None, products |-> <<>>,
     total_price |-> None_num]

\* Client.set_day
SetDay(c, d) ==
    [c EXCEPT !.day = IF Len(d) = 0 \/ d = DELIVERY_DAY_NO_PREFERENCE_VAL
                      THEN DELIVERY_DAY_NO_PREFERENCE_STR ELSE d]

RECURSIVE SumPrices(_)
\* the loop of get_total_price, from 0, in the order of the products
SumPrices(products) ==
    IF products = <<>> THEN Zero
    ELSE DecAdd(SumPrices(SubSeq(products, 1, Len(products) - 1)),
                products[Len(products)].price)

RECURSIVE SumQuantities(_)
SumQuantities(products) ==
    IF products = <<>> THEN Zero
    ELSE DecAdd(SumQuantities(SubSeq(products, 1, Len(products) - 1)),
                products[Len(products)].quantity)

\* GetTotalPrice adding up the quantities of the lines instead of their prices
GetTotalPriceOfQuantities(c) ==
    LET total == IF c.total_price = None_num THEN SumQuantities(c.products)
                 ELSE c.total_price
    IN  [client |-> [c EXCEPT !.total_price = total], value |-> total]

\* Client.get_total_price: the client after the call and the value returned
GetTotalPrice(c) ==
    LET total == IF c.total_price = None_num THEN SumPrices(c.products)
                 ELSE c.total_price
    IN  [client |-> [c EXCEPT !.total_price = total], value |-> total]

\* Product.get_ordered_quantity: round(ordered_quantity, 2), ties to even
GetOrderedQuantity(product) ==
    LET q == product.ordered_quantity
    IN  IF q.e <= 2 THEN q
        ELSE LET p    == Pow10(q.e - 2)
                 lo   == q.m \div p
                 rest == q.m % p
                 up   == 2 * rest > p \/ (2 * rest = p /\ lo % 2 = 1)
             IN  DecNorm([m |-> IF up THEN lo + 1 ELSE lo, e |-> 2])

---------------------------------------------------------------------------
(* Input files *)

CAROTTES_KG  == <<"C","a","r","o","t","t","e","s"," ","-"," ","2",",","5","0","€","/","k","g">>
OEUFS_PIECE  == <<"O","e","u","f","s","-","3","€","/","p","i","è","c","e">>
CAROTTES_BAD == <<"C","a","r","o","t","t","e","s"," ","2",".","5","0","/","k","g">>
AIL_PRICE    == <<"A","i","l"," ","-"," ","1",",","5",",","0","€","/","k","g">>
CAROTTES_PIECE == <<"C","a","r","o","t","t","e","s"," ","-"," ","3","€","/","p","i","è","c","e">>

\* The header rows of the input files.  csv.DictReader keeps one entry per
\* distinct header cell, and main() reads rows only once NAME_FIELD is among
\* the field names.
Headers ==
    { <<NAME_FIELD, CAROTTES_KG>>,
      <<NAME_FIELD, DELIVERY_DAY_FIELD, CAROTTES_KG>>,
      <<NAME_FIELD, CAROTTES_KG, DELIVERY_DAY_FIELD>>,
      <<NAME_FIELD, CAROTTES_KG, DELIVERY_DAY_FIELD, OEUFS_PIECE>>,
      <<DELIVERY_DAY_FIELD, NAME_FIELD, OEUFS_PIECE>>,
      <<NAME_FIELD, CAROTTES_KG, CAROTTES_PIECE>>,
      <<CAROTTES_BAD, NAME_FIELD, CAROTTES_KG>>,
      <<NAME_FIELD, EMAIL_FIELD, COMMENT_FIELD, CAROTTES_BAD>>,
      <<NAME_FIELD, CAROTTES_KG, CAROTTES_BAD>>,
      <<NAME_FIELD, EMAIL_FIELD>>,
      <<NAME_FIELD, AIL_PRICE>>,
      <<NAME_FIELD, DELIVERY_DAY_FIELD, OEUFS_PIECE, CAROTTES_KG>> }

NameCells  == { <<>>, <<"d","u","p","o","n","t">>,
                <<"D","U","P","O","N","T"," ","(","2",")">> }
DayCells   == { <<>>, DELIVERY_DAY_NO_PREFERENCE_VAL, <<"M","a","r","d","i">> }
TextCells  == { <<>>, <<"x">> }
QuantityCells ==
    { <<>>, <<"9","9">>, <<"1","0","0">>, <<"0">>, <<"-","5">>, <<"a","b","c">> }

CellsFor(k) ==
    IF k = NAME_FIELD THEN NameCells
    ELSE IF k = DELIVERY_DAY_FIELD THEN DayCells
    ELSE IF k \in {EMAIL_FIELD, COMMENT_FIELD} THEN TextCells
    ELSE QuantityCells

RECURSIVE RowsOf(_)
\* the rows a file with header h may hold: one cell per header cell
RowsOf(h) ==
    IF h = <<>> THEN {<<>>}
    ELSE {Append(r, v) : r \in RowsOf(SubSeq(h, 1, Len(h) - 1)),
                         v \in CellsFor(h[Len(h)])}

\* The command line (lines 436-455).  Nothing reads it before line 531, so it
\* is drawn there; until then the variable holds argparse's defaults.
Options == [pdf_output : BOOLEAN, clients : BOOLEAN, harvest : BOOLEAN]
DefaultOptions == [pdf_output |-> TRUE, clients |-> TRUE, harvest |-> TRUE]

---------------------------------------------------------------------------
(* main() *)

NoError == [type |-> "", at |-> "", arg |-> <<>>]

\* the state at line 462, before the file is opened
Init ==
    /\ header \in Headers
    /\ options = DefaultOptions
    /\ delivery_day = FALSE
    /\ pc = "open"
    /\ rows_read = 0
    /\ row = <<>>
    /\ col = 0
    /\ name = None
    /\ client = NewClient
    /\ day_key = Unbound
    /\ client_list = {}
    /\ orders = EmptyDict
    /\ harvest_products = EmptyDict
    /\ err = NoError
    /\ out = <<>>

\* AfterExcept for an except clause that reports the error and goes on with
\* the next row
AfterExceptContinue == "rows"

\* where the except clause of lines 527-529 leaves main(): it re-raises
AfterExcept == "failed"

\* an exception raised inside the try block
Raise(type, at, arg) ==
    /\ pc' = AfterExcept
    /\ err' = [type |-> type, at |-> at, arg |-> arg]

\* lines 465-470
OpenFile ==
    /\ pc = "open"
    /\ delivery_day' = (DELIVERY_DAY_FIELD \in Range(header))
    /\ pc' = "rows"
    /\ UNCHANGED <<header, options, rows_read, row, col, name, client, day_key,
                   client_list, orders, harvest_products, err, out>>

\* lines 471-473: the reader yields one more row
NextRow ==
    /\ pc = "rows"
    /\ (rows_read + 1) * Len(header) <= MaxCells
    /\ \E r \in RowsOf(header) : row' = r
    /\ rows_read' = rows_read + 1
    /\ name' = None
    /\ client' = NewClient
    /\ col' = 1
    /\ pc' = "cols"
    /\ UNCHANGED <<header, options, delivery_day, day_key, client_list, orders,
                   harvest_products, err, out>>

\* line 471: the reader is exhausted; the try block ends normally
EndOfFile ==
    /\ pc = "rows"
    /\ pc' = "render_clients"
    /\ \E o \in Options : options' = o
    /\ UNCHANGED <<header, delivery_day, rows_read, row, col, name,
                   client, day_key, client_list, orders, harvest_products, err, out>>

AtColumn == pc = "cols" /\ col <= Len(header)

\* lines 475-476, 490: no name yet and this is not the name column
SkipColumn ==
    /\ AtColumn
    /\ name = None
    /\ header[col] # NAME_FIELD
    /\ col' = col + 1
    /\ UNCHANGED <<header, options, delivery_day, pc, rows_read, row, name, client,
                   day_key, client_list, orders, harvest_products, err, out>>

\* DedupName with the suffix search left out: a used name always gets " (2)"
DedupNameFirstSuffix(n, used) ==
    IF n \notin used THEN n ELSE n \o <<" ", "(", "2", ")">>

\* lines 480-488: the name the order is recorded under
DedupName(n, used) ==
    IF n \notin used THEN n
    ELSE LET new_name(i) == n \o <<" ", "(">> \o IntToStr(i) \o <<")">>
             i == CHOOSE j \in 2..(Cardinality(used) + 2) :
                     /\ new_name(j) \notin used
                     /\ \A h \in 2..(j - 1) : new_name(h) \in used
         IN  new_name(i)

\* lines 475-490: the name column
NameColumn ==
    /\ AtColumn
    /\ name = None
    /\ header[col] = NAME_FIELD
    /\ IF row[col] = <<>>
       THEN /\ Raise("Exception", "name", <<>>)
            /\ UNCHANGED <<name, client_list, col>>
       ELSE /\ name' = DedupName(Capitalize(row[col]), client_list)
            /\ client_list' = client_list \cup {name'}
            /\ col' = col + 1
            /\ UNCHANGED <<pc, err>>
    /\ UNCHANGED <<header, options, delivery_day, rows_read, row, client, day_key,
                   orders, harvest_products, out>>

\* lines 491-494
EmailColumn ==
    /\ AtColumn
    /\ name # None
    /\ header[col] = EMAIL_FIELD
    /\ client' = IF row[col] # <<>> THEN [client EXCEPT !.email = row[col]] ELSE client
    /\ col' = col + 1
    /\ UNCHANGED <<header, options, delivery_day, pc, rows_read, row, name, day_key,
                   client_list, orders, harvest_products, err, out>>

\* lines 495-498
CommentColumn ==
    /\ AtColumn
    /\ name # None
    /\ header[col] = COMMENT_FIELD
    /\ client' = IF row[col] # <<>> THEN [client EXCEPT !.comment = row[col]] ELSE client
    /\ col' = col + 1
    /\ UNCHANGED <<header, options, delivery_day, pc, rows_read, row, name, day_key,
                   client_list, orders, harvest_products, err, out>>

\* lines 499-501
DayColumn ==
    /\ AtColumn
    /\ name # None
    /\ header[col] = DELIVERY_DAY_FIELD
    /\ client' = SetDay(client, row[col])
    /\ col' = col + 1
    /\ UNCHANGED <<header, options, delivery_day, pc, rows_read, row, name, day_key,
                   client_list, orders, harvest_products, err, out>>

FixedFields == {NAME_FIELD, EMAIL_FIELD, COMMENT_FIELD, DELIVERY_DAY_FIELD}

\* lines 503-506: the bucket key of a product column
DayKey(global_delivery_day, c) == IF global_delivery_day THEN c.day ELSE <<>>

\* InvalidProductFormat with the header text left out of the message
InvalidProductFormatNoText(k) == [type |-> "Exception", at |-> "header", arg |-> <<>>]

\* line 514: the exception raised for a header the pattern does not match
InvalidProductFormat(k) == [type |-> "Exception", at |-> "header", arg |-> k]

\* IsOrdered with the test for the empty cell left out
IsOrderedAlways(v) == TRUE

\* line 520: the client ordered this product
IsOrdered(v) == v # <<>>

\* lines 516-519: the catalog with the bucket and the product entry created
\* when missing (ok = FALSE: Product() raised, the bucket may have been added)
WithProduct(catalog, key, m) ==
    LET c1   == IF Has(catalog, key) THEN catalog ELSE Put(catalog, key, EmptyDict)
        new  == NewProduct(m.price, m.unit)
    IN  IF Has(Get(c1, key), m.product) THEN [ok |-> TRUE, catalog |-> c1]
        ELSE IF ~new.ok THEN [ok |-> FALSE, catalog |-> c1]
        ELSE [ok |-> TRUE,
              catalog |-> Put(c1, key, Put(Get(c1, key), m.product, new.obj))]

\* lines 503-523: a column after the name that is none of the fixed fields
ProductColumn ==
    /\ AtColumn
    /\ name # None
    /\ header[col] \notin FixedFields
    /\ LET k  == header[col]
           v  == row[col]
           dk == DayKey(delivery_day, client)
           m  == PatternMatch(k)
           wp == WithProduct(harvest_products, dk, m)
           sq == SetQuantity(NewProductOrder(m.product), v,
                             Get(Get(wp.catalog, dk), m.product))
       IN  /\ day_key' = dk
           /\ IF ~m.ok
              THEN /\ pc' = AfterExcept
                   /\ err' = InvalidProductFormat(k)
                   /\ UNCHANGED <<harvest_products, client, col>>
              ELSE IF ~wp.ok
              THEN /\ Raise("ValueError", "price", SubComma(m.price))
                   /\ harvest_products' = wp.catalog
                   /\ UNCHANGED <<client, col>>
              ELSE IF ~IsOrdered(v)
              THEN /\ harvest_products' = wp.catalog
                   /\ col' = col + 1
                   /\ UNCHANGED <<client, pc, err>>
              ELSE IF ~sq.ok
              THEN /\ Raise("ValueError", "quantity", SubComma(v))
                   /\ harvest_products' = wp.catalog
                   /\ UNCHANGED <<client, col>>
              ELSE /\ harvest_products' =
                          Put(wp.catalog, dk,
                              Put(Get(wp.catalog, dk), m.product,
                                  IncreaseQuantity(Get(Get(wp.catalog, dk), m.product),
                                                   sq.obj.quantity)))
                   /\ client' = [client EXCEPT !.products = Append(@, sq.obj)]
                   /\ col' = col + 1
                   /\ UNCHANGED <<pc, err>>
    /\ UNCHANGED <<header, options, delivery_day, rows_read, row, name, client_list,
                   orders, out>>

\* lines 524-526: the row is finished, the client is stored
EndRow ==
    /\ pc = "cols"
    /\ col > Len(header)
    /\ IF day_key = Unbound
       THEN /\ Raise("UnboundLocalError", "day_key", <<>>)
            /\ UNCHANGED <<orders, row>>
       ELSE /\ orders' = LET o1 == IF Has(orders, day_key) THEN orders
                                   ELSE Put(orders, day_key, EmptyDict)
                         IN  Put(o1, day_key, Put(Get(o1, day_key), name, client))
            /\ pc' = "rows"
            /\ row' = <<>>
            /\ UNCHANGED err
    /\ UNCHANGED <<header, options, delivery_day, rows_read, col, name, client,
                   day_key, client_list, harvest_products, out>>

---------------------------------------------------------------------------
(* The reports (lines 531-546).  A report is recorded with what it reads   *)
(* from the aggregation; page layout and text formatting are left out, and *)
(* the clients of a report are recorded by name, not in sorted order.      *)

Report(kind, day) ==
    [report |-> kind, day |-> day, totals |-> EmptyDict, sum |-> Zero,
     ordered |-> <<>>, not_ordered |-> <<>>]

\* the clients of a bucket after each get_total_price() has been called
AfterTotals(bucket) ==
    [i \in 1..Len(bucket) |->
        [k |-> bucket[i].k, v |-> GetTotalPrice(bucket[i].v).client]]

\* the values get_total_price() returns for the clients of a bucket
Totals(bucket) ==
    [i \in 1..Len(bucket) |->
        [k |-> bucket[i].k, v |-> GetTotalPrice(bucket[i].v).value]]

RECURSIVE SumTotals(_)
\* lines 416-422
SumTotals(totals) ==
    IF totals = <<>> THEN Zero
    ELSE DecAdd(SumTotals(SubSeq(totals, 1, Len(totals) - 1)), totals[Len(totals)].v)

\* write_client_orders (line 224) and client_orders_pdf (line 333)
ClientOrdersReport(day, bucket) ==
    [Report("client_orders", day) EXCEPT !.totals = Totals(bucket)]

\* clients_summary_pdf (lines 419-425)
ClientsSummaryReport(day, bucket) ==
    [Report("clients_summary", day) EXCEPT !.totals = Totals(bucket),
                                           !.sum = SumTotals(Totals(bucket))]

\* HarvestReport listing a product as ordered when its quantity is not negative
HarvestReportNonNegative(day, products) ==
    LET names   == [i \in 1..Len(products) |-> products[i].k]
        wanted(n) == DecGE(GetOrderedQuantity(Get(products, n)), 0)
    IN  [Report("harvest", day) EXCEPT
            !.ordered = SelectSeq(names, wanted),
            !.not_ordered = SelectSeq(names, LAMBDA n : ~wanted(n))]

\* write_harvest_quantity (lines 234-249), harvest_quantity_pdf (lines 377-395)
HarvestReport(day, products) ==
    LET names   == [i \in 1..Len(products) |-> products[i].k]
        wanted(n) == DecGT(GetOrderedQuantity(Get(products, n)), 0)
    IN  [Report("harvest", day) EXCEPT
            !.ordered = SelectSeq(names, wanted),
            !.not_ordered = SelectSeq(names, LAMBDA n : ~wanted(n))]

RECURSIVE ClientReports(_, _, _)
\* lines 533-535 and 542-543: the reports of the buckets from index i on, and
\* the orders once the totals have been computed
ClientReports(i, ords, pdf) ==
    IF i > Len(ords) THEN [orders |-> ords, reports |-> <<>>]
    ELSE LET day  == ords[i].k
             b1   == AfterTotals(ords[i].v)
             here == IF pdf
                     THEN <<ClientOrdersReport(day, ords[i].v),
                            ClientsSummaryReport(day, b1)>>
                     ELSE <<ClientOrdersReport(day, ords[i].v)>>
             rest == ClientReports(i + 1, Put(ords, day, b1), pdf)
         IN  [orders |-> rest.orders, reports |-> here \o rest.reports]

\* lines 532-535 and 541-543
RenderClients ==
    /\ pc = "render_clients"
    /\ LET r == ClientReports(1, orders, options.pdf_output)
       IN  IF options.clients
           THEN orders' = r.orders /\ out' = out \o r.reports
           ELSE UNCHANGED <<orders, out>>
    /\ pc' = "render_harvest"
    /\ UNCHANGED <<header, options, delivery_day, rows_read, row, col, name, client,
                   day_key, client_list, harvest_products, err>>

\* lines 536-538 and 544-546
RenderHarvest ==
    /\ pc = "render_harvest"
    /\ out' = IF options.harvest
              THEN out \o [i \in 1..Len(orders) |->
                              HarvestReport(orders[i].k, Get(harvest_products, orders[i].k))]
              ELSE out
    /\ pc' = IF options.pdf_output THEN "write_pdf" ELSE "done"
    /\ UNCHANGED <<header, options, delivery_day, rows_read, row, col, name, client,
                   day_key, client_list, orders, harvest_products, err>>

\* line 539
WritePdfFile ==
    /\ pc = "write_pdf"
    /\ out' = Append(out, Report("pdf_file", None))
    /\ pc' = "done"
    /\ UNCHANGED <<header, options, delivery_day, rows_read, row, col, name, client,
                   day_key, client_list, orders, harvest_products, err>>

Next ==
    \/ OpenFile
    \/ NextRow
    \/ EndOfFile
    \/ SkipColumn
    \/ NameColumn
    \/ EmailColumn
    \/ CommentColumn
    \/ DayColumn
    \/ ProductColumn
    \/ EndRow
    \/ RenderClients
    \/ RenderHarvest
    \/ WritePdfFile

Spec == Init /\ [][Next]_vars

---------------------------------------------------------------------------
(* Vocabulary of the properties *)

\* index of the name column
NamePos == CHOOSE i \in 1..Len(header) : header[i] = NAME_FIELD

\* the columns main() treats as product columns: after the name column and
\* none of the fixed fields
ProductCols == {i \in 1..Len(header) : i > NamePos /\ header[i] \notin FixedFields}

\* ingestion is between two rows or has ended normally
RowsIngested == pc \in {"rows", "render_clients", "render_harvest", "write_pdf", "done"}

\* the (day, product) pairs of a catalog and the (day, client) pairs of the orders
Entries(d) == UNION {{<<d[i].k, key>> : key \in Keys(d[i].v)} : i \in 1..Len(d)}
Entry(d, e) == Get(Get(d, e[1]), e[2])

RECURSIVE SumQuantity(_, _)
\* sum of the quantities of the order lines of one client for product p
SumQuantity(products, p) ==
    IF products = <<>> THEN Zero
    ELSE LET last == products[Len(products)]
             rest == SumQuantity(SubSeq(products, 1, Len(products) - 1), p)
         IN  IF last.name = p THEN DecAdd(rest, last.quantity) ELSE rest

RECURSIVE SumBucket(_, _)
\* sum over the clients of a bucket
SumBucket(bucket, p) ==
    IF bucket = <<>> THEN Zero
    ELSE DecAdd(SumBucket(SubSeq(bucket, 1, Len(bucket) - 1), p),
                SumQuantity(bucket[Len(bucket)].v.products, p))

\* the delivery day of the current row as the claims normalise it
RowDay ==
    LET i == CHOOSE j \in 1..Len(header) : header[j] = DELIVERY_DAY_FIELD
    IN  IF row[i] = <<>> \/ row[i] = <<"P","e","u"," ","i","m","p","o","r","t","e">>
        THEN <<"I","n","d","i","f","f","é","r","e","n","t">> ELSE row[i]

\* the bucket the current row belongs to
RowBucket == IF DELIVERY_DAY_FIELD \in Range(header) THEN RowDay ELSE <<>>

\* a <= b for decimals
DecLE(a, b) ==
    LET e == IF a.e > b.e THEN a.e ELSE b.e
    IN  a.m * Pow10(e - a.e) <= b.m * Pow10(e - b.e)

---------------------------------------------------------------------------
(* C1 *)

\* C1: after any sequence of complete rows, for every bucket and every
\* product of its catalog the cumulative quantity is the sum of the
\* product's order-line quantities over the clients stored in the same
\* bucket, and every product of a stored order line has a catalog entry in
\* the bucket the client is stored in.  Stated as the claim states it, for
\* any column order; the code violates it.
C1_CatalogEqualsOrderLines ==
    RowsIngested =>
        /\ \A e \in Entries(harvest_products) :
              Entry(harvest_products, e).ordered_quantity =
                  IF Has(orders, e[1]) THEN SumBucket(Get(orders, e[1]), e[2]) ELSE Zero
        /\ \A c \in Entries(orders) :
              \A l \in Range(Entry(orders, c).products) :
                  <<c[1], l.name>> \in Entries(harvest_products)

---------------------------------------------------------------------------
(* C2 *)

C2_Suffixed(n, i) == n \o <<" ", "(">> \o IntToStr(i) \o <<")">>

\* C2: the name of the row being processed is its capitalised name cell when
\* that was not used before, else the cell suffixed " (N)" with the least
\* N >= 2 that was not used; the keys of the stored orders are pairwise
\* distinct over all buckets and no row's order replaces another's.
C2_ClientKeysUnique ==
    /\ (pc = "cols" /\ name # None) =>
          LET used == client_list \ {name}
              cap  == Capitalize(row[NamePos])
          IN  /\ cap[1] \notin Range(Lower)
              /\ \A i \in 2..Len(cap) : cap[i] \notin Range(Upper)
              /\ Len(cap) = Len(row[NamePos])
              /\ IF cap \notin used THEN name = cap
                 ELSE \E n \in 2..(rows_read + 1) :
                        /\ name = C2_Suffixed(cap, n)
                        /\ name \notin used
                        /\ \A h \in 2..(n - 1) : C2_Suffixed(cap, h) \in used
    /\ \A c1, c2 \in Entries(orders) : c1[2] = c2[2] => c1 = c2
    /\ RowsIngested => Cardinality(Entries(orders)) = rows_read
    /\ RowsIngested => {c[2] : c \in Entries(orders)} = client_list

\* C2 witness: a third row named "dupont" is being stored as "Dupont (3)"
\* beside "Dupont" and "Dupont (2)"
C2_ThreeDuponts ==
    /\ pc = "cols"
    /\ rows_read = 3
    /\ row[NamePos] = <<"d","u","p","o","n","t">>
    /\ name = <<"D","u","p","o","n","t"," ","(","3",")">>
    /\ {c[2] : c \in Entries(orders)} =
          { <<"D","u","p","o","n","t">>, <<"D","u","p","o","n","t"," ","(","2",")">> }

---------------------------------------------------------------------------
(* C3 *)

\* the step that processes a non-empty cell of a product column and does
\* not raise
C3_OrderedStep ==
    /\ AtColumn /\ col \in ProductCols /\ row[col] # <<>>
    /\ pc' = "cols"

\* C3: for a non-empty numeric cell, with `entered` its decimal value and
\* `unit` the unit label of the order line: if unit is "kg" and entered >= 100
\* the line holds entered / 1000 and keeps entered as the original value,
\* otherwise it holds entered and no original value; the line's quantity is
\* what the step adds to the catalog entry of the product.
C3_Step ==
    C3_OrderedStep =>
        LET line    == client'.products[Len(client'.products)]
            entered == Float(SubComma(row[col])).val
            e       == <<day_key', line.name>>
            before  == IF e \in Entries(harvest_products)
                       THEN Entry(harvest_products, e).ordered_quantity ELSE Zero
        IN  /\ Len(client'.products) = Len(client.products) + 1
            /\ IF line.quantity_unit = <<"k", "g">> /\ entered.m >= 100 * Pow10(entered.e)
               THEN /\ DecMul(line.quantity, [m |-> 1000, e |-> 0]) = entered
                    /\ line.erroneous_quantity = entered
               ELSE /\ line.quantity = entered
                    /\ line.erroneous_quantity = None_num
            /\ line.quantity_unit = Entry(harvest_products', e).price_unit
            /\ Entry(harvest_products', e).ordered_quantity = DecAdd(before, line.quantity)

C3_QuantityCorrection == [][C3_Step]_vars

\* C3 witness: the cell "100" of a kg product has been stored as 0.1 with
\* 100 as its original value, and a cell "99" of a kg product as 99
C3_CorrectedAndNot ==
    /\ pc = "cols" /\ col > 1 /\ (col - 1) \in ProductCols
    /\ row[col - 1] = <<"1", "0", "0">>
    /\ client.products # <<>>
    /\ LET line == client.products[Len(client.products)]
       IN  /\ line.quantity_unit = <<"k", "g">>
           /\ line.quantity = [m |-> 1, e |-> 1]
           /\ line.erroneous_quantity = [m |-> 100, e |-> 0]
    /\ \E c \in Entries(orders) : \E l \in Range(Entry(orders, c).products) :
          /\ l.quantity_unit = <<"k", "g">>
          /\ l.quantity = [m |-> 99, e |-> 0]
          /\ l.erroneous_quantity = None_num

---------------------------------------------------------------------------
(* C4 *)

\* C4: processing an empty cell of a product column leaves the client's
\* order lines and every existing catalog entry as they are and raises no
\* quantity error; the only entry it may add is the one of the column's
\* product, with quantity 0, in the bucket resolved for the row at this
\* column, which is the row's own bucket whenever the file has no day column
\* or the day column lies between the name column and this column.
C4_Step ==
    (AtColumn /\ col \in ProductCols /\ row[col] = <<>>) =>
        /\ client' = client
        /\ err'.at # "quantity"
        /\ \A e \in Entries(harvest_products) :
              /\ e \in Entries(harvest_products')
              /\ Entry(harvest_products', e) = Entry(harvest_products, e)
        /\ \A e \in Entries(harvest_products') \ Entries(harvest_products) :
              /\ e = <<day_key', PatternMatch(header[col]).product>>
              /\ Entry(harvest_products', e).ordered_quantity = [m |-> 0, e |-> 0]
              /\ (\/ DELIVERY_DAY_FIELD \notin Range(header)
                  \/ \E i \in (NamePos + 1)..(col - 1) : header[i] = DELIVERY_DAY_FIELD)
                 => e[1] = RowBucket

---------------------------------------------------------------------------
(* C5 *)

\* C5: once a row has raised, main() has left the try block by the
\* exception: nothing more happens, no later row is read and no report has
\* been or will be rendered.
C5_AbortOnError ==
    err # NoError =>
        /\ pc = "failed"
        /\ out = <<>>
        /\ ~ENABLED Next

\* C5 witness: a row raised after an earlier row had been ingested
C5_FailedAfterGoodRow ==
    /\ pc = "failed"
    /\ err.at \in {"name", "header", "quantity"}
    /\ orders # <<>>
    /\ rows_read >= 2

---------------------------------------------------------------------------
(* C6 *)

\* the header cells that are neither a fixed field nor a match of the pattern
C6_BadCols ==
    {i \in 1..Len(header) : header[i] \notin FixedFields /\ ~PatternMatch(header[i]).ok}

C6_Ended == pc \in {"failed", "render_clients", "render_harvest", "write_pdf", "done"}

---------------------------------------------------------------------------
(* C7 *)

\* C7 as claimed: once a product column of the current row has been
\* processed, the bucket its quantity went to, which is also the bucket the
\* row's order is stored in at the end of the row, is the row's own bucket:
\* the empty string without a delivery-day column, else the row's normalised
\* delivery day.
C7_RowsInOwnBucket ==
    (pc = "cols" /\ \E i \in ProductCols : i < col) => day_key = RowBucket

---------------------------------------------------------------------------
(* C8 *)

RECURSIVE C8_SumOfLines(_)
C8_SumOfLines(products) ==
    IF products = <<>> THEN [m |-> 0, e |-> 0]
    ELSE DecAdd(products[1].price, C8_SumOfLines(Tail(products)))

\* the new order line is priced from the catalog entry of its product in the
\* bucket resolved for the row at this column
C8_Step ==
    C3_OrderedStep =>
        LET line == client'.products[Len(client'.products)]
        IN  /\ line.price =
                  DecMul(line.quantity,
                         Entry(harvest_products', <<day_key', line.name>>).price)
            /\ (\/ DELIVERY_DAY_FIELD \notin Range(header)
                \/ \E i \in (NamePos + 1)..(col - 1) : header[i] = DELIVERY_DAY_FIELD)
               => day_key' = RowBucket

\* no total is computed before the reports are rendered; a memoised total
\* and every total a report shows is the sum of the client's line prices
C8_State ==
    /\ pc \in {"open", "rows", "cols", "failed"} =>
          /\ client.total_price = None_num
          /\ \A c \in Entries(orders) : Entry(orders, c).total_price = None_num
    /\ \A c \in Entries(orders) :
          Entry(orders, c).total_price # None_num =>
              Entry(orders, c).total_price = C8_SumOfLines(Entry(orders, c).products)
    /\ \A i \in 1..Len(out) :
          out[i].report \in {"client_orders", "clients_summary"} =>
              /\ Keys(out[i].totals) = Keys(Get(orders, out[i].day))
              /\ \A t \in Range(out[i].totals) :
                    t.v = C8_SumOfLines(Entry(orders, <<out[i].day, t.k>>).products)

---------------------------------------------------------------------------
(* C9 *)

\* C9 as claimed: once the column "Carottes - 2,50€/kg" of a row has been
\* processed, the catalog of the bucket has the entry "Carottes", without
\* surrounding white space, with price 2.50 and unit "kg", and the order line
\* of a non-empty cell bears that name.
C9_CarottesHeader ==
    (/\ pc = "cols" /\ col > 1 /\ (col - 1) \in ProductCols
     /\ header[col - 1] = CAROTTES_KG) =>
        LET e == <<day_key, <<"C","a","r","o","t","t","e","s">> >>
        IN  /\ e \in Entries(harvest_products)
            /\ Entry(harvest_products, e).price = [m |-> 25, e |-> 1]
            /\ Entry(harvest_products, e).price_unit = <<"k", "g">>
            /\ row[col - 1] # <<>> =>
                  client.products[Len(client.products)].name = e[2]

---------------------------------------------------------------------------
(* C10 *)

\* C10 as claimed: in every step, each catalog entry stays in the catalog,
\* keeps its unit price and unit label, and its cumulative quantity does not
\* decrease.
C10_Step ==
    \A e \in Entries(harvest_products) :
        /\ e \in Entries(harvest_products')
        /\ Entry(harvest_products', e).price = Entry(harvest_products, e).price
        /\ Entry(harvest_products', e).price_unit = Entry(harvest_products, e).price_unit
        /\ DecLE(Entry(harvest_products, e).ordered_quantity,
                 Entry(harvest_products', e).ordered_quantity)

C10_CatalogMonotone == [][C10_Step]_vars

---------------------------------------------------------------------------
(* C11 *)

\* the harvest reports rendered so far
C11_HarvestReports == {i \in 1..Len(out) : out[i].report = "harvest"}

\* position of product n in the catalog of a bucket (insertion order)
C11_Pos(products, n) == CHOOSE i \in 1..Len(products) : products[i].k = n

\* the list keeps catalog insertion order and names no product twice
C11_InCatalogOrder(list, products) ==
    /\ Range(list) \subseteq Keys(products)
    /\ \A i, j \in 1..Len(list) :
          i < j => C11_Pos(products, list[i]) < C11_Pos(products, list[j])

\* some client stored in the bucket has an order line for product n
C11_HasOrderLine(day, n) ==
    \E c \in Keys(Get(orders, day)) :
        \E l \in Range(Get(Get(orders, day), c).products) : l.name = n

---------------------------------------------------------------------------
(* C12 *)

\* C12 as claimed: once ingestion has completed without error, the
\* delivery-day keys of the orders are the delivery-day keys of the catalog,
\* so that the harvest report, which goes through the keys of the orders,
\* finds every bucket in the catalog and reports every bucket of the catalog.
C12_SameBucketKeys ==
    pc \in {"render_clients", "render_harvest", "write_pdf", "done"} =>
        /\ Keys(orders) = Keys(harvest_products)
        /\ (pc = "done" /\ options.harvest) =>
              {out[i].day : i \in C11_HarvestReports} = Keys(harvest_products)

====
